---- MODULE Spec2Model ----
(***************************************************************************)
(* A model of the structural_growth batch pipeline:                        *)
(*   py/01_pull_wdi.py          indicator puller (country whitelist,       *)
(*                              per-indicator paginated fetch, main loop)  *)
(*   py/03_merge_wdi_weo.py     unifier/merger and coverage report         *)
(*   py/05_em_coverage_wide.py  baseline subset, coverage and wide pivot   *)
(* Data frames are sequences of records (row order is kept), missing       *)
(* values are the marker NaN / None, percentages are exact fractions.      *)
(***************************************************************************)
EXTENDS Integers, Sequences, FiniteSets, TLC

VARIABLES
    stage,          \* what runs in this behaviour: "01", "03", "05", "fetch", "country"
    pc,             \* position of the running script
    error,          \* the exception that ended the run, if any
    \* ---- 03_merge_wdi_weo.py and 05_em_coverage_wide.py
    wdi,            \* 03 input: data_raw/wdi_long.parquet (rows)
    weo,            \* 03 input: data_raw/weo_long.parquet (rows)
    panel_em,       \* 05 input: data_clean/panel_em_long.parquet (rows)
    registry,       \* indicator registry rows read by the stage (03: both, 05: baseline)
    panel,          \* the stage's working long panel
    cov,            \* the stage's coverage table
    wide,           \* 05: the pivoted wide table
    OUT_LONG,       \* file data_clean/panel_long.parquet
    OUT_COVERAGE,   \* file coverage_report.csv / coverage_em_baseline_v1.csv
    OUT_WIDE,       \* file panel_em_wide_baseline_v1.parquet
    \* ---- 01_pull_wdi.py
    IND_PATH,       \* file registry/indicators_wdi.csv
    COUNTRY_CACHE,  \* file registry/wb_countries_real.csv
    codes,          \* main: the indicator codes loaded from the registry
    idx,            \* main: i of enumerate(codes, start=1), the next code to fetch
    valid_iso3,     \* main: the country whitelist
    all_parts,      \* main: the frames fetched so far (each with the code it is for)
    failures,       \* main: the (code, error) pairs recorded so far
    out,            \* main: the concatenated, cleaned long table
    OUT_PATH,       \* file data_raw/wdi_long.parquet
    FAIL_PATH,      \* file data_raw/wdi_failures.csv
    attempts,       \* the codes fetch_indicator_long was called for, in call order
    run,            \* number of the puller run over the same files
    \* ---- one call of fetch_indicator_long
    answers,        \* the provider's answers to the call
    fetched,        \* what the call returned
    \* ---- calls of fetch_real_country_iso3
    ncalls,         \* calls made so far
    built,          \* the codes returned by the last call that built the cache
    last_call       \* the record of the most recent call

panelData == <<wdi, weo, panel_em, registry, panel, cov, wide,
               OUT_LONG, OUT_COVERAGE, OUT_WIDE>>
pullData == <<IND_PATH, codes, idx, valid_iso3, all_parts, failures, out,
              OUT_PATH, FAIL_PATH, attempts, run>>
fetchData == <<answers, fetched>>
countryData == <<ncalls, built, last_call>>

vars == <<stage, pc, error, panelData, pullData, COUNTRY_CACHE, fetchData, countryData>>

----------------------------------------------------------------------------
(* Bounds and input domains                                                *)

MaxRows == 2        \* rows in the input long tables of a run
MaxPages == 2       \* pages a provider answer declares
MaxCalls == 3       \* calls of the country whitelist resolution
MaxRuns == 2        \* runs of the indicator puller over the same files

NaN == "<NaN>"      \* a missing cell of a data frame

\* the (iso3, year) cells the input rows are drawn from: one year before both
\* windows, one inside 2000-2024 only, one inside both windows
GridCells == { <<"ARG", 1999>>, <<"BRA", 2005>>, <<"ARG", 2015>> }
IndicatorCodes == {"GDP", "INF"}
Values == {"1.0", "2.0"}

CoreRow(cell, code, v) ==
    [iso3 |-> cell[1], year |-> cell[2], indicator_code |-> code, value |-> v]

\* rows of wdi_long (01 keeps missing values) and of weo_long (02 drops them)
WdiRows == { CoreRow(c, k, v) : c \in GridCells, k \in IndicatorCodes, v \in Values \cup {NaN} }
WeoRows == { CoreRow(c, k, v) : c \in GridCells, k \in IndicatorCodes, v \in Values }

SeqsUpTo(S, n) == UNION { [1..k -> S] : k \in 0..n }

RegRow(p, k, nm, s) ==
    [pillar |-> p, indicator_code |-> k, indicator_name |-> nm, source |-> s]

\* the registries a run may find on disk (rows in file order)
Registries ==
    { << RegRow("macro", "GDP", "GDP growth", "WDI"), RegRow("prices", "INF", "Inflation", "WEO") >>,
      << RegRow("macro", "GDP", "GDP growth", "WDI"), RegRow("macro", "GDP", "GDP growth", "WEO") >>,
      << RegRow("macro", "GDP", "GDP growth", "WDI"), RegRow("macro", "GDP", "GDP growth", "WDI") >>,
      << RegRow("macro", "GDP", "GDP growth", "WDI") >>,
      << RegRow(NaN, "GDP", "GDP growth", "WDI") >>,
      << RegRow("macro", "GDP", NaN, "WDI"), RegRow("prices", "INF", "Inflation", "WEO") >> }

\* lexicographic order of the strings that occur as sort keys
StrOrder == << "ARG", "BRA", "GDP", "GDP growth", "INF", "Inflation", "macro", "prices" >>
StrRank(s) == IF s = NaN THEN Len(StrOrder) + 1
              ELSE CHOOSE i \in 1..Len(StrOrder) : StrOrder[i] = s

----------------------------------------------------------------------------
(* Data-frame helpers                                                      *)

RECURSIVE DropDuplicates(_)
DropDuplicates(s) ==
    IF s = <<>> THEN <<>>
    ELSE LET init == DropDuplicates(SubSeq(s, 1, Len(s) - 1))
             x == s[Len(s)]
         IN  IF \E i \in 1..Len(init) : init[i] = x THEN init ELSE Append(init, x)

IsIn(s, x) == \E i \in 1..Len(s) : s[i] = x

Range(s) == { s[i] : i \in 1..Len(s) }

Pairs(rows) == { <<rows[i].iso3, rows[i].year>> : i \in 1..Len(rows) }

\* df.dropna(subset=["value"])
DropNaValue(rows) == SelectSeq(rows, LAMBDA r : r.value # NaN)

\* Series.unique(): the distinct values in order of first appearance
Unique(s) == DropDuplicates(s)

Absent == [exists |-> FALSE, data |-> <<>>]
File(d) == [exists |-> TRUE, data |-> d]
NoError == [type |-> "none", codes |-> <<>>]

----------------------------------------------------------------------------
(* Exact fractions for the coverage percentages                            *)

Pct(n, d) == [nan |-> FALSE, num |-> n, den |-> d]
PctNaN == [nan |-> TRUE, num |-> 0, den |-> 1]
PctZero == Pct(0, 1)
\* a > b for two non-missing fractions
PctGreater(a, b) == a.num * b.den > b.num * a.den
PctEqual(a, b) == a.nan = b.nan /\ (~a.nan => a.num * b.den = b.num * a.den)

----------------------------------------------------------------------------
(* 03_merge_wdi_weo.py / 05_em_coverage_wide.py: the join with the registry *)

\* 03 lines 28-35: the four core columns, the source tag, the concatenation
Tagged(rows, src) ==
    [ i \in 1..Len(rows) |->
        [iso3 |-> rows[i].iso3, year |-> rows[i].year,
         indicator_code |-> rows[i].indicator_code, value |-> rows[i].value,
         source |-> src] ]

ConcatSources(w1, w2) == Tagged(w1, "WDI") \o Tagged(w2, "WEO")

\* 03 line 45: panel.merge(meta, on="indicator_code", how="left",
\* suffixes=("", "_meta")): left order kept, one output row per matching
\* registry row, an all-missing match when there is none
RECURSIVE MergeMeta03(_, _)
MergeMeta03(rows, meta) ==
    IF rows = <<>> THEN <<>>
    ELSE LET r == rows[1]
             hits == SelectSeq(meta, LAMBDA m : m.indicator_code = r.indicator_code)
             one(p, nm, sm) ==
                 [iso3 |-> r.iso3, year |-> r.year, indicator_code |-> r.indicator_code,
                  value |-> r.value, source |-> r.source,
                  pillar |-> p, indicator_name |-> nm, source_meta |-> sm]
             joined == IF hits = <<>> THEN << one(NaN, NaN, NaN) >>
                       ELSE [ i \in 1..Len(hits) |->
                                one(hits[i].pillar, hits[i].indicator_name, hits[i].source) ]
         IN  joined \o MergeMeta03(Tail(rows), meta)

\* a stage 05 that does not restrict the panel to the baseline indicators
FilterBaseline_Keep(rows, reg) == rows

\* 05 lines 31-32: keep = set(reg["indicator_code"]); panel[isin(keep)]
FilterBaseline(rows, reg) ==
    SelectSeq(rows, LAMBDA r : \E i \in 1..Len(reg) : reg[i].indicator_code = r.indicator_code)

\* 05 line 36: panel.merge(reg_small, on="indicator_code", how="left")
RECURSIVE MergeMeta05(_, _)
MergeMeta05(rows, reg_small) ==
    IF rows = <<>> THEN <<>>
    ELSE LET r == rows[1]
             hits == SelectSeq(reg_small, LAMBDA m : m.indicator_code = r.indicator_code)
             one(p, nm, s) ==
                 [iso3 |-> r.iso3, year |-> r.year, indicator_code |-> r.indicator_code,
                  value |-> r.value, pillar |-> p, indicator_name |-> nm, source |-> s]
             joined == IF hits = <<>> THEN << one(NaN, NaN, NaN) >>
                       ELSE [ i \in 1..Len(hits) |->
                                one(hits[i].pillar, hits[i].indicator_name, hits[i].source) ]
         IN  joined \o MergeMeta05(Tail(rows), reg_small)

----------------------------------------------------------------------------
(* Coverage report (03 lines 54-87, 05 lines 47-76)                        *)

GroupKey(r) == <<r.pillar, r.indicator_code, r.indicator_name>>

\* lexicographic order of group keys, missing labels last (groupby sort=True, dropna=False)
KeyLess(a, b) ==
    \/ StrRank(a[1]) < StrRank(b[1])
    \/ StrRank(a[1]) = StrRank(b[1]) /\ StrRank(a[2]) < StrRank(b[2])
    \/ StrRank(a[1]) = StrRank(b[1]) /\ StrRank(a[2]) = StrRank(b[2])
         /\ StrRank(a[3]) < StrRank(b[3])

RECURSIVE SortedKeys(_)
SortedKeys(S) ==
    IF S = {} THEN <<>>
    ELSE LET m == CHOOSE x \in S : \A y \in S \ {x} : KeyLess(x, y)
         IN  <<m>> \o SortedKeys(S \ {m})

\* def window_cov(df, start, end, label): the per-indicator coverage of a year window
window_cov(df, start, end) ==
    LET win == SelectSeq(df, LAMBDA r : r.year >= start /\ r.year <= end)
        grid_win == Cardinality(Pairs(win))
        nn == DropNaValue(win)
        present == { nn[i].indicator_code : i \in 1..Len(nn) }
        non_missing(c) == Cardinality({ i \in 1..Len(nn) : nn[i].indicator_code = c })
    IN  [ c \in present |-> IF grid_win # 0 THEN Pct(100 * non_missing(c), grid_win)
                                           ELSE PctZero ]

\* cov.merge(window, on="indicator_code", how="left"): the window's value, or missing
WindowCell(window, code) == IF code \in DOMAIN window THEN window[code] ELSE PctNaN

\* sort_values(["pillar", "coverage_2010_2024_pct", "coverage_pct"],
\*             ascending=[True, False, False]), missing values last
DescBefore(a, b) == ~a.nan /\ (b.nan \/ PctGreater(a, b))
CovBefore(a, b) ==
    \/ StrRank(a.pillar) < StrRank(b.pillar)
    \/ /\ StrRank(a.pillar) = StrRank(b.pillar)
       /\ \/ DescBefore(a.coverage_2010_2024_pct, b.coverage_2010_2024_pct)
          \/ /\ PctEqual(a.coverage_2010_2024_pct, b.coverage_2010_2024_pct)
             /\ DescBefore(a.coverage_pct, b.coverage_pct)

RECURSIVE SortCov(_)
\* a stable sort: a row goes behind every earlier row it does not strictly precede
SortCov(s) ==
    IF s = <<>> THEN <<>>
    ELSE LET init == SortCov(SubSeq(s, 1, Len(s) - 1))
             x == s[Len(s)]
             k == Cardinality({ i \in 1..Len(init) : ~CovBefore(x, init[i]) })
         IN  SubSeq(init, 1, k) \o <<x>> \o SubSeq(init, k + 1, Len(init))

\* the coverage table of a joined panel: overall coverage on the observed
\* (iso3, year) grid, the two window columns, the final sort
CoverageReport(df) ==
    LET grid_n == Cardinality(Pairs(df))
        nn == DropNaValue(df)
        keys == SortedKeys({ GroupKey(nn[i]) : i \in 1..Len(nn) })
        non_missing(k) == Cardinality({ i \in 1..Len(nn) : GroupKey(nn[i]) = k })
        cov_2010_2024 == window_cov(df, 2010, 2024)
        cov_2000_2024 == window_cov(df, 2000, 2024)
        row(k) == [pillar |-> k[1], indicator_code |-> k[2], indicator_name |-> k[3],
                   non_missing |-> non_missing(k),
                   grid_n |-> grid_n,
                   coverage_pct |-> Pct(100 * non_missing(k), grid_n),
                   coverage_2000_2024_pct |-> WindowCell(cov_2000_2024, k[2]),
                   coverage_2010_2024_pct |-> WindowCell(cov_2010_2024, k[2])]
    IN  SortCov([ i \in 1..Len(keys) |-> row(keys[i]) ])

----------------------------------------------------------------------------
(* 05 lines 81-86: the wide pivot                                          *)

\* an aggregate that lets the last row of the group win
GroupFirst_Last(vals) == IF vals = <<>> THEN NaN ELSE vals[Len(vals)]

RECURSIVE GroupFirst(_)
\* aggfunc="first": the first non-missing value of the group, in row order
GroupFirst(vals) ==
    IF vals = <<>> THEN NaN
    ELSE IF vals[1] # NaN THEN vals[1] ELSE GroupFirst(Tail(vals))

GroupValues(df, iso3, year, code) ==
    LET g == SelectSeq(df, LAMBDA r : r.iso3 = iso3 /\ r.year = year /\ r.indicator_code = code)
    IN  [ i \in 1..Len(g) |-> g[i].value ]

IndexLess(a, b) ==
    \/ StrRank(a[1]) < StrRank(b[1])
    \/ StrRank(a[1]) = StrRank(b[1]) /\ a[2] < b[2]

RECURSIVE SortedIndex(_)
SortedIndex(S) ==
    IF S = {} THEN <<>>
    ELSE LET m == CHOOSE x \in S : \A y \in S \ {x} : IndexLess(x, y)
         IN  <<m>> \o SortedIndex(S \ {m})

\* pivot_table(index=["iso3","year"], columns="indicator_code", values="value",
\* aggfunc="first").reset_index(): groups whose aggregate is missing are
\* dropped (dropna=True), then the groups are unstacked into one row per index
PivotWide(df) ==
    LET groups == { <<df[i].iso3, df[i].year, df[i].indicator_code>> : i \in 1..Len(df) }
        agged(g) == GroupFirst(GroupValues(df, g[1], g[2], g[3]))
        kept == { g \in groups : agged(g) # NaN }
        index == SortedIndex({ <<g[1], g[2]>> : g \in kept })
        columns == { g[3] : g \in kept }
        line(ix) == [iso3 |-> ix[1], year |-> ix[2],
                     cells |-> [ c \in columns |->
                                   IF <<ix[1], ix[2], c>> \in kept
                                   THEN agged(<<ix[1], ix[2], c>>) ELSE NaN ]]
    IN  [ i \in 1..Len(index) |-> line(index[i]) ]

----------------------------------------------------------------------------
(* 01_pull_wdi.py: the provider's answers and the per-indicator fetch      *)

None == "<None>"    \* JSON null / Python None

\* a date is a text, the sequence of its characters; NoneDate is a JSON null
NoneDate == <<None>>

Digits == {"0", "1", "2", "3", "4", "5", "6", "7", "8", "9"}
DigitVal(c) == CASE c = "0" -> 0 [] c = "1" -> 1 [] c = "2" -> 2 [] c = "3" -> 3
                 [] c = "4" -> 4 [] c = "5" -> 5 [] c = "6" -> 6 [] c = "7" -> 7
                 [] c = "8" -> 8 [] c = "9" -> 9

RECURSIVE StripLeft(_)
StripLeft(t) == IF t # <<>> /\ t[1] = " " THEN StripLeft(Tail(t)) ELSE t
RECURSIVE StripRight(_)
StripRight(t) == IF t # <<>> /\ t[Len(t)] = " "
                 THEN StripRight(SubSeq(t, 1, Len(t) - 1)) ELSE t

RECURSIVE DigitsValue(_)
DigitsValue(t) == IF t = <<>> THEN 0
                  ELSE 10 * DigitsValue(SubSeq(t, 1, Len(t) - 1)) + DigitVal(t[Len(t)])

\* int(year) of a text: surrounding blanks stripped, an optional sign, then
\* decimal digits; anything else raises ValueError
ParseInt(t) ==
    LET body == StripRight(StripLeft(t))
        signed == body # <<>> /\ body[1] \in {"+", "-"}
        digits == IF signed THEN Tail(body) ELSE body
        ok == digits # <<>> /\ \A i \in 1..Len(digits) : digits[i] \in Digits
    IN  [ok |-> ok,
         value |-> IF ~ok THEN 0
                   ELSE IF signed /\ body[1] = "-" THEN 0 - DigitsValue(digits)
                   ELSE DigitsValue(digits)]

Item(iso3, date, val) == [countryiso3code |-> iso3, date |-> date, value |-> val]

\* one answer of the provider to a page request
HttpError == [status |-> "http_error", items |-> <<>>]
NoData == [status |-> "invalid", items |-> <<>>]
Page(items) == [status |-> "ok", items |-> items]

RECURSIVE ConsumeItems_NoWhitelist(_, _, _)
\* a consume that does not test the country code against the whitelist
ConsumeItems_NoWhitelist(items, ind_code, valid_iso3_) ==
    IF items = <<>> THEN <<>>
    ELSE LET item == items[1]
             rest == ConsumeItems_NoWhitelist(Tail(items), ind_code, valid_iso3_)
         IN  IF item.countryiso3code \in {None, ""} \/ item.date \in {NoneDate, <<>>}
             THEN rest
             ELSE IF ~ParseInt(item.date).ok THEN rest
             ELSE << [iso3 |-> item.countryiso3code, year |-> ParseInt(item.date).value,
                      indicator_code |-> ind_code, value |-> item.value] >> \o rest

\* def consume(page_json): the rows one page adds (lines 141-159)
RECURSIVE ConsumeItems(_, _, _)
ConsumeItems(items, ind_code, valid_iso3_) ==
    IF items = <<>> THEN <<>>
    ELSE LET item == items[1]
             iso3 == item.countryiso3code
             year == item.date
             val == item.value
             rest == ConsumeItems(Tail(items), ind_code, valid_iso3_)
         IN  IF iso3 \in {None, ""} \/ year \in {NoneDate, <<>>} THEN rest
             ELSE IF iso3 \notin valid_iso3_ THEN rest
             ELSE IF ~ParseInt(year).ok THEN rest
             ELSE << [iso3 |-> iso3, year |-> ParseInt(year).value,
                      indicator_code |-> ind_code, value |-> val] >> \o rest

consume(page_json, ind_code, valid_iso3_) ==
    IF page_json.status # "ok" THEN <<>>
    ELSE ConsumeItems(page_json.items, ind_code, valid_iso3_)

\* lines 165-170: the pages after the first, in order; an HTTP error raises
RECURSIVE RemainingPages(_, _, _, _, _)
RemainingPages(api, page, ind_code, valid_iso3_, acc) ==
    IF page > api.pages THEN acc
    ELSE LET rp == api.body[page]
             asked == Append(acc.requests, page)
         IN  IF rp.status = "http_error"
             THEN [raised |-> TRUE, err |-> "HTTPError", rows |-> <<>>, requests |-> asked]
             ELSE RemainingPages(api, page + 1, ind_code, valid_iso3_,
                                 [raised |-> FALSE, err |-> None,
                                  rows |-> acc.rows \o consume(rp, ind_code, valid_iso3_),
                                  requests |-> asked])

\* def fetch_indicator_long(session, ind_code, valid_iso3): the rows of one
\* indicator, or the exception raised; "requests" lists the pages asked for
fetch_indicator_long(api, ind_code, valid_iso3_) ==
    LET j == api.body[1]
    IN  IF j.status = "http_error"
        THEN [raised |-> TRUE, err |-> "HTTPError", rows |-> <<>>, requests |-> <<1>>]
        ELSE IF j.status = "invalid"
        THEN [raised |-> FALSE, err |-> None, rows |-> <<>>, requests |-> <<1>>]
        ELSE RemainingPages(api, 2, ind_code, valid_iso3_,
                            [raised |-> FALSE, err |-> None,
                             rows |-> consume(j, ind_code, valid_iso3_),
                             requests |-> <<1>>])

\* the page bodies the provider may send for an indicator
IndicatorBodies ==
    { << Item("ARG", <<"2", "0", "1", "5">>, "1.0") >>,
      << Item("WLD", <<"2", "0", "1", "5">>, "3.0"),
         Item("BRA", <<" ", "2", "0", "0", "5">>, None) >>,
      << Item(None, <<"2", "0", "1", "5">>, "1.0"),
         Item("ARG", <<"2", "0", "1", "5", "Q", "1">>, "1.0"),
         Item("ARG", NoneDate, "1.0"),
         Item("", <<"2", "0", "1", "5">>, "1.0"),
         Item("BRA", <<>>, "2.0") >>,
      <<>> }

IndicatorPages == { Page(b) : b \in IndicatorBodies } \cup {HttpError, NoData}

\* the answers of the indicator endpoint: the first response (which declares
\* the number of pages when it is valid) and the later pages
IndicatorApis ==
    UNION { { [pages |-> n, body |-> b] :
                b \in { f \in [1..n -> IndicatorPages] :
                          f[1].status # "ok" => n = 1 } } : n \in 1..MaxPages }

----------------------------------------------------------------------------
(* 01_pull_wdi.py: the country whitelist and its CSV cache                 *)

\* the texts pandas.read_csv reads as a missing value
NaValues == {"", "#N/A", "#N/A N/A", "#NA", "-1.#IND", "-1.#QNAN", "-NaN", "-nan",
             "1.#IND", "1.#QNAN", "<NA>", "N/A", "NA", "NULL", "NaN", "None",
             "n/a", "nan", "null"}

\* DataFrame.to_csv: a cell as CSV text (a missing cell is written empty)
ToCsvCell(v) == IF v \in {None, NaN} THEN "" ELSE v
\* pandas.read_csv: CSV text as a cell
ReadCsvCell(t) == IF t \in NaValues THEN NaN ELSE t

CacheColumns == <<"iso3", "country_name", "income_group">>
CacheFile(rows) == [exists |-> TRUE, columns |-> CacheColumns, data |-> rows]
NoCache == [exists |-> FALSE, columns |-> <<>>, data |-> <<>>]

\* df.to_csv(COUNTRY_CACHE, index=False) of the (iso3, name, income) rows
WriteCache(rows) ==
    CacheFile([ i \in 1..Len(rows) |->
                  [iso3 |-> ToCsvCell(rows[i][1]),
                   country_name |-> ToCsvCell(rows[i][2]),
                   income_group |-> ToCsvCell(rows[i][3])] ])

\* lines 55-57: the iso3 cells read back from the cache, missing ones dropped
CachedCodes(cache) ==
    IF ~IsIn(cache.columns, "iso3") THEN {}
    ELSE { ReadCsvCell(cache.data[i].iso3) : i \in 1..Len(cache.data) } \ {NaN}

\* a validity test that never accepts the cache
CacheValid_Never(cache) == FALSE

\* line 56: "iso3" in df.columns and df["iso3"].notna().any()
CacheValid(cache) == IsIn(cache.columns, "iso3") /\ CachedCodes(cache) # {}

Country(id, iso3Code, name, region_id, income) ==
    [id |-> id, iso3Code |-> iso3Code, name |-> name,
     region_id |-> region_id, income |-> income]

\* lines 85-100: the rows one country page adds
RECURSIVE CountryRows(_)
CountryRows(items) ==
    IF items = <<>> THEN <<>>
    ELSE LET item == items[1]
             iso3 == IF item.id \notin {None, ""} THEN item.id ELSE item.iso3Code
             rest == CountryRows(Tail(items))
         IN  IF iso3 \in {None, ""} \/ item.region_id = "NA" THEN rest
             ELSE << <<iso3, item.name, item.income>> >> \o rest

\* lines 76-102: request every page 1..pages in order; an HTTP error raises,
\* a page without a data list is skipped
RECURSIVE CountryPages(_, _, _)
CountryPages(api, page, acc) ==
    IF page > api.pages THEN acc
    ELSE LET jp == api.body[page]
             asked == Append(acc.requests, page)
         IN  IF jp.status = "http_error"
             THEN [raised |-> TRUE, err |-> "HTTPError", rows |-> <<>>, requests |-> asked]
             ELSE CountryPages(api, page + 1,
                               [raised |-> FALSE, err |-> None,
                                rows |-> acc.rows \o (IF jp.status = "ok"
                                                      THEN CountryRows(jp.items) ELSE <<>>),
                                requests |-> asked])

\* def fetch_real_country_iso3(session, refresh): what the call returns or
\* raises, the cache file it leaves and the pages it asked the endpoint for
fetch_real_country_iso3(cache, refresh, api) ==
    IF cache.exists /\ ~refresh /\ CacheValid(cache)
    THEN [raised |-> FALSE, err |-> None, codes |-> CachedCodes(cache),
          cache |-> cache, requests |-> <<>>]
    ELSE IF api.first = "http_error"
    THEN [raised |-> TRUE, err |-> "HTTPError", codes |-> {},
          cache |-> cache, requests |-> <<1>>]
    ELSE IF api.first = "bad_structure"
    THEN [raised |-> TRUE, err |-> "ValueError", codes |-> {},
          cache |-> cache, requests |-> <<1>>]
    ELSE LET got == CountryPages(api, 1, [raised |-> FALSE, err |-> None,
                                          rows |-> <<>>, requests |-> <<1>>])
             df == DropDuplicates(got.rows)
         IN  IF got.raised
             THEN [raised |-> TRUE, err |-> got.err, codes |-> {},
                   cache |-> cache, requests |-> got.requests]
             ELSE [raised |-> FALSE, err |-> None,
                   codes |-> { df[i][1] : i \in 1..Len(df) },
                   cache |-> WriteCache(df), requests |-> got.requests]

\* the page bodies the country endpoint may send
CountryBodies ==
    { << Country("ARG", None, "Argentina", "LCN", "Upper middle income"),
         Country("WLD", None, "World", "NA", None),
         Country("ARG", None, "Argentina", "LCN", "Upper middle income") >>,
      << Country("BRA", None, "Brazil", "LCN", "Upper middle income"),
         Country(None, "CHL", None, None, "High income"),
         Country("", None, "Unnamed", "LCN", None) >>,
      << Country("WLD", None, "World", "NA", None),
         Country("HIC", None, "High income", "NA", None) >> }

CountryPageAnswers == { Page(b) : b \in CountryBodies } \cup {HttpError, NoData}

CountryApis ==
    { [first |-> f, pages |-> 1, body |-> <<NoData>>] : f \in {"http_error", "bad_structure"} }
    \cup UNION { { [first |-> "ok", pages |-> n, body |-> b] :
                     b \in [1..n -> CountryPageAnswers] } : n \in 1..MaxPages }

----------------------------------------------------------------------------
(* The values of the variables a behaviour does not use                    *)

NotFetched == [raised |-> FALSE, err |-> None, rows |-> <<>>, requests |-> <<>>]
NoApi == [pages |-> 0, body |-> <<>>]
NoCall == [called |-> FALSE, refresh |-> FALSE, raised |-> FALSE, codes |-> {},
           requests |-> <<>>, declared |-> 0, before |-> NoCache, after |-> NoCache,
           prior |-> [has |-> FALSE, codes |-> {}]]
NoIndicatorFile == [exists |-> FALSE, columns |-> <<>>, cells |-> <<>>]

PanelIdle ==
    /\ wdi = <<>> /\ weo = <<>> /\ panel_em = <<>> /\ registry = <<>>
    /\ panel = <<>> /\ cov = <<>> /\ wide = <<>>
    /\ OUT_LONG = Absent /\ OUT_COVERAGE = Absent /\ OUT_WIDE = Absent

PullIdle ==
    /\ IND_PATH = NoIndicatorFile /\ codes = <<>> /\ idx = 1 /\ valid_iso3 = {}
    /\ all_parts = <<>> /\ failures = <<>> /\ out = <<>>
    /\ OUT_PATH = Absent /\ FAIL_PATH = Absent /\ attempts = <<>> /\ run = 1

FetchIdle == answers = NoApi /\ fetched = NotFetched

CountryIdle ==
    ncalls = 0 /\ built = [has |-> FALSE, codes |-> {}] /\ last_call = NoCall

----------------------------------------------------------------------------
(* The merger (03) and the subset stage (05) as step machines.  A run may  *)
(* be interrupted (the process killed) between any two steps.              *)

PanelInit ==
    /\ stage \in {"03", "05"}
    /\ pc = "start"
    /\ error = NoError
    /\ registry \in Registries
    /\ IF stage = "03"
       THEN /\ \E n \in 0..MaxRows : \E k \in 0..n :
                 /\ wdi \in [1..k -> WdiRows]
                 /\ weo \in [1..(n - k) -> WeoRows]
            /\ panel_em = <<>>
       ELSE /\ panel_em \in SeqsUpTo(WdiRows, MaxRows)
            /\ wdi = <<>>
            /\ weo = <<>>
    /\ panel = <<>>
    /\ cov = <<>>
    /\ wide = <<>>
    /\ OUT_LONG = Absent
    /\ OUT_COVERAGE = Absent
    /\ OUT_WIDE = Absent
    /\ PullIdle /\ COUNTRY_CACHE = NoCache /\ FetchIdle /\ CountryIdle

\* 03 lines 24-45: read both tables, tag, concatenate, join the metadata
MergeLoad ==
    /\ stage = "03" /\ pc = "start"
    /\ panel' = MergeMeta03(ConcatSources(wdi, weo), DropDuplicates(registry))
    /\ pc' = "merged"
    /\ UNCHANGED <<stage, wdi, weo, panel_em, registry, cov, wide, error,
                   OUT_LONG, OUT_COVERAGE, OUT_WIDE>>
    /\ UNCHANGED <<pullData, COUNTRY_CACHE, fetchData, countryData>>

\* a merger that saves the coverage CSV where it should save the long panel
MergeSaveLong_CoverageFirst ==
    /\ stage = "03" /\ pc = "merged"
    /\ OUT_COVERAGE' = File(cov)
    /\ pc' = "long_saved"
    /\ UNCHANGED <<stage, wdi, weo, panel_em, registry, panel, cov, wide, error,
                   OUT_LONG, OUT_WIDE>>
    /\ UNCHANGED <<pullData, COUNTRY_CACHE, fetchData, countryData>>

\* 03 line 48: panel.to_parquet(OUT_LONG)
MergeSaveLong ==
    /\ stage = "03" /\ pc = "merged"
    /\ OUT_LONG' = File(panel)
    /\ pc' = "long_saved"
    /\ UNCHANGED <<stage, wdi, weo, panel_em, registry, panel, cov, wide, error,
                   OUT_COVERAGE, OUT_WIDE>>
    /\ UNCHANGED <<pullData, COUNTRY_CACHE, fetchData, countryData>>

\* 03 lines 54-87: the coverage report
MergeCoverage ==
    /\ stage = "03" /\ pc = "long_saved"
    /\ cov' = CoverageReport(panel)
    /\ pc' = "cov_ready"
    /\ UNCHANGED <<stage, wdi, weo, panel_em, registry, panel, wide, error,
                   OUT_LONG, OUT_COVERAGE, OUT_WIDE>>
    /\ UNCHANGED <<pullData, COUNTRY_CACHE, fetchData, countryData>>

\* 03 line 88: cov.to_csv(OUT_COVERAGE)
MergeSaveCoverage ==
    /\ stage = "03" /\ pc = "cov_ready"
    /\ OUT_COVERAGE' = File(cov)
    /\ pc' = "done"
    /\ UNCHANGED <<stage, wdi, weo, panel_em, registry, panel, cov, wide, error,
                   OUT_LONG, OUT_WIDE>>
    /\ UNCHANGED <<pullData, COUNTRY_CACHE, fetchData, countryData>>

\* 05 lines 19-36: read, keep the baseline indicators, join the baseline metadata
SubsetLoad ==
    /\ stage = "05" /\ pc = "start"
    /\ panel' = MergeMeta05(FilterBaseline(panel_em, registry), DropDuplicates(registry))
    /\ pc' = "joined"
    /\ UNCHANGED <<stage, wdi, weo, panel_em, registry, cov, wide, error,
                   OUT_LONG, OUT_COVERAGE, OUT_WIDE>>
    /\ UNCHANGED <<pullData, COUNTRY_CACHE, fetchData, countryData>>

\* 05 lines 39-41: bad = panel.loc[panel["pillar"].isna(), "indicator_code"].unique()
BadCodes(df) ==
    LET missing == SelectSeq(df, LAMBDA r : r.pillar = NaN)
    IN  Unique([ i \in 1..Len(missing) |-> missing[i].indicator_code ])

\* 05 lines 39-44: the hard check on pillar (a missing name only warns)
SubsetCheck ==
    /\ stage = "05" /\ pc = "joined"
    /\ IF BadCodes(panel) # <<>>
       THEN /\ error' = [type |-> "ValueError", codes |-> BadCodes(panel)]
            /\ pc' = "failed"
       ELSE /\ error' = error
            /\ pc' = "checked"
    /\ UNCHANGED <<stage, wdi, weo, panel_em, registry, panel, cov, wide,
                   OUT_LONG, OUT_COVERAGE, OUT_WIDE>>
    /\ UNCHANGED <<pullData, COUNTRY_CACHE, fetchData, countryData>>

\* 05 lines 47-76: the coverage report on the restricted grid
SubsetCoverage ==
    /\ stage = "05" /\ pc = "checked"
    /\ cov' = CoverageReport(panel)
    /\ pc' = "cov_ready"
    /\ UNCHANGED <<stage, wdi, weo, panel_em, registry, panel, wide, error,
                   OUT_LONG, OUT_COVERAGE, OUT_WIDE>>
    /\ UNCHANGED <<pullData, COUNTRY_CACHE, fetchData, countryData>>

\* 05 line 77: cov.to_csv(OUT_COVERAGE)
SubsetSaveCoverage ==
    /\ stage = "05" /\ pc = "cov_ready"
    /\ OUT_COVERAGE' = File(cov)
    /\ pc' = "cov_saved"
    /\ UNCHANGED <<stage, wdi, weo, panel_em, registry, panel, cov, wide, error,
                   OUT_LONG, OUT_WIDE>>
    /\ UNCHANGED <<pullData, COUNTRY_CACHE, fetchData, countryData>>

\* 05 lines 81-86: the pivot
SubsetPivot ==
    /\ stage = "05" /\ pc = "cov_saved"
    /\ wide' = PivotWide(panel)
    /\ pc' = "wide_ready"
    /\ UNCHANGED <<stage, wdi, weo, panel_em, registry, panel, cov, error,
                   OUT_LONG, OUT_COVERAGE, OUT_WIDE>>
    /\ UNCHANGED <<pullData, COUNTRY_CACHE, fetchData, countryData>>

\* 05 line 88: wide.to_parquet(OUT_WIDE)
SubsetSaveWide ==
    /\ stage = "05" /\ pc = "wide_ready"
    /\ OUT_WIDE' = File(wide)
    /\ pc' = "done"
    /\ UNCHANGED <<stage, wdi, weo, panel_em, registry, panel, cov, wide, error,
                   OUT_LONG, OUT_COVERAGE>>
    /\ UNCHANGED <<pullData, COUNTRY_CACHE, fetchData, countryData>>

\* the process is killed between two steps
PanelInterrupt ==
    /\ stage \in {"03", "05"}
    /\ pc \notin {"done", "failed", "interrupted"}
    /\ pc' = "interrupted"
    /\ UNCHANGED <<stage, wdi, weo, panel_em, registry, panel, cov, wide, error,
                   OUT_LONG, OUT_COVERAGE, OUT_WIDE>>
    /\ UNCHANGED <<pullData, COUNTRY_CACHE, fetchData, countryData>>

PanelNext ==
    \/ MergeLoad
    \/ MergeSaveLong
    \/ MergeCoverage
    \/ MergeSaveCoverage
    \/ SubsetLoad
    \/ SubsetCheck
    \/ SubsetCoverage
    \/ SubsetSaveCoverage
    \/ SubsetPivot
    \/ SubsetSaveWide
    \/ PanelInterrupt

SpecPanel == PanelInit /\ [][PanelNext]_vars

----------------------------------------------------------------------------
(* 01_pull_wdi.py: main as a step machine                                  *)

IndicatorFile(cells) == [exists |-> TRUE, columns |-> <<"indicator_code">>, cells |-> cells]

\* the registry files a run may find at IND_PATH
IndicatorFiles ==
    { NoIndicatorFile,
      [exists |-> TRUE, columns |-> <<"code">>, cells |-> <<"GDP">>],
      IndicatorFile(<<>>),
      IndicatorFile(<<"GDP">>),
      IndicatorFile(<<"GDP", "INF">>),
      IndicatorFile(<<"INF", NaN, " GDP ", "INF">>) }

\* str.strip() on the texts of the registry column
StripText(t) == IF t = " GDP " THEN "GDP" ELSE t

\* def load_indicator_codes(path): dropna, strip, unique, in file order
load_indicator_codes(file) ==
    LET kept == SelectSeq(file.cells, LAMBDA c : c # NaN)
    IN  Unique([ i \in 1..Len(kept) |-> StripText(kept[i]) ])

\* the country caches a puller run may find on disk
PullCaches ==
    { NoCache,
      CacheFile(<< [iso3 |-> "ARG", country_name |-> "Argentina", income_group |-> ""],
                   [iso3 |-> "BRA", country_name |-> "Brazil", income_group |-> ""] >>) }

\* the values pd.to_numeric keeps; every other value is coerced to missing
NumericValues == {"1.0", "2.0", "3.0"}
ToNumeric(v) == IF v \in NumericValues THEN v ELSE NaN

RECURSIVE ConcatParts(_)
\* pd.concat(all_parts, ignore_index=True)
ConcatParts(parts) ==
    IF parts = <<>> THEN <<>> ELSE parts[1].rows \o ConcatParts(Tail(parts))

\* lines 222-226: concat, drop rows without iso3 or year, coerce value
CleanLong(parts) ==
    LET cat == SelectSeq(ConcatParts(parts), LAMBDA r : r.iso3 \notin {None, NaN})
    IN  [ i \in 1..Len(cat) |->
            [iso3 |-> cat[i].iso3, year |-> cat[i].year,
             indicator_code |-> cat[i].indicator_code,
             value |-> ToNumeric(cat[i].value)] ]

PullInit ==
    /\ stage = "01"
    /\ pc = "start"
    /\ error = NoError
    /\ IND_PATH \in IndicatorFiles
    /\ COUNTRY_CACHE \in PullCaches
    /\ codes = <<>> /\ idx = 1 /\ valid_iso3 = {}
    /\ all_parts = <<>> /\ failures = <<>> /\ out = <<>>
    /\ OUT_PATH = Absent /\ FAIL_PATH = Absent
    /\ attempts = <<>> /\ run = 1
    /\ PanelIdle /\ FetchIdle /\ CountryIdle

\* line 199: codes = load_indicator_codes(IND_PATH)
PullLoadCodes ==
    /\ stage = "01" /\ pc = "start"
    /\ IF ~IND_PATH.exists
       THEN /\ error' = [type |-> "FileNotFoundError", codes |-> <<>>]
            /\ pc' = "failed"
            /\ codes' = codes
       ELSE IF ~IsIn(IND_PATH.columns, "indicator_code")
       THEN /\ error' = [type |-> "ValueError", codes |-> <<>>]
            /\ pc' = "failed"
            /\ codes' = codes
       ELSE /\ codes' = load_indicator_codes(IND_PATH)
            /\ pc' = "whitelist"
            /\ error' = error
    /\ UNCHANGED <<stage, IND_PATH, COUNTRY_CACHE, idx, valid_iso3, all_parts, failures,
                   out, OUT_PATH, FAIL_PATH, attempts, run>>
    /\ UNCHANGED <<panelData, fetchData, countryData>>

\* lines 202-206: valid_iso3 = fetch_real_country_iso3(session, refresh=False)
PullWhitelist ==
    /\ stage = "01" /\ pc = "whitelist"
    /\ \E a \in CountryApis :
         LET r == fetch_real_country_iso3(COUNTRY_CACHE, FALSE, a)
         IN  /\ COUNTRY_CACHE' = r.cache
             /\ IF r.raised
                THEN /\ error' = [type |-> r.err, codes |-> <<>>]
                     /\ pc' = "failed"
                     /\ valid_iso3' = valid_iso3
                ELSE /\ valid_iso3' = r.codes
                     /\ pc' = "loop"
                     /\ error' = error
    /\ UNCHANGED <<stage, IND_PATH, codes, idx, all_parts, failures,
                   out, OUT_PATH, FAIL_PATH, attempts, run>>
    /\ UNCHANGED <<panelData, fetchData, countryData>>

\* a loop without the try/except: an exception of the fetch ends the run
PullFetch_Abort ==
    /\ stage = "01" /\ pc = "loop" /\ idx <= Len(codes)
    /\ \E a \in IndicatorApis :
         LET code == codes[idx]
             r == fetch_indicator_long(a, code, valid_iso3)
         IN  IF r.raised
             THEN /\ error' = [type |-> "RuntimeError", codes |-> <<>>]
                  /\ pc' = "failed"
                  /\ all_parts' = all_parts
             ELSE /\ all_parts' = Append(all_parts, [code |-> code, rows |-> r.rows])
                  /\ error' = error
                  /\ pc' = pc
    /\ attempts' = Append(attempts, codes[idx])
    /\ idx' = idx + 1
    /\ UNCHANGED <<stage, failures, IND_PATH, COUNTRY_CACHE, codes, valid_iso3,
                   out, OUT_PATH, FAIL_PATH, run>>
    /\ UNCHANGED <<panelData, fetchData, countryData>>

\* lines 208-217: one turn of the loop over the codes
PullFetch ==
    /\ stage = "01" /\ pc = "loop" /\ idx <= Len(codes)
    /\ \E a \in IndicatorApis :
         LET code == codes[idx]
             r == fetch_indicator_long(a, code, valid_iso3)
         IN  IF r.raised
             THEN /\ failures' = Append(failures, <<code, r.err>>)
                  /\ all_parts' = all_parts
             ELSE /\ all_parts' = Append(all_parts, [code |-> code, rows |-> r.rows])
                  /\ failures' = failures
    /\ attempts' = Append(attempts, codes[idx])
    /\ idx' = idx + 1
    /\ UNCHANGED <<stage, pc, error, IND_PATH, COUNTRY_CACHE, codes, valid_iso3,
                   out, OUT_PATH, FAIL_PATH, run>>
    /\ UNCHANGED <<panelData, fetchData, countryData>>

\* lines 219-226: the loop is over; abort without parts, else concat and clean
PullConcat ==
    /\ stage = "01" /\ pc = "loop" /\ idx > Len(codes)
    /\ IF all_parts = <<>>
       THEN /\ error' = [type |-> "RuntimeError", codes |-> <<>>]
            /\ pc' = "failed"
            /\ out' = out
       ELSE /\ out' = CleanLong(all_parts)
            /\ pc' = "cleaned"
            /\ error' = error
    /\ UNCHANGED <<stage, IND_PATH, COUNTRY_CACHE, codes, idx, valid_iso3, all_parts,
                   failures, OUT_PATH, FAIL_PATH, attempts, run>>
    /\ UNCHANGED <<panelData, fetchData, countryData>>

\* line 228: out.to_parquet(OUT_PATH)
PullSaveLong ==
    /\ stage = "01" /\ pc = "cleaned"
    /\ OUT_PATH' = File(out)
    /\ pc' = "saved"
    /\ UNCHANGED <<stage, error, IND_PATH, COUNTRY_CACHE, codes, idx, valid_iso3,
                   all_parts, failures, out, FAIL_PATH, attempts, run>>
    /\ UNCHANGED <<panelData, fetchData, countryData>>

\* lines 237-240: the failures CSV is written only when there are failures
PullSaveFailures ==
    /\ stage = "01" /\ pc = "saved"
    /\ FAIL_PATH' = IF failures # <<>> THEN File(failures) ELSE FAIL_PATH
    /\ pc' = "done"
    /\ UNCHANGED <<stage, error, IND_PATH, COUNTRY_CACHE, codes, idx, valid_iso3,
                   all_parts, failures, out, OUT_PATH, attempts, run>>
    /\ UNCHANGED <<panelData, fetchData, countryData>>

\* the process is killed between two steps
PullInterrupt ==
    /\ stage = "01"
    /\ pc \notin {"done", "failed", "interrupted"}
    /\ pc' = "interrupted"
    /\ UNCHANGED <<stage, error, IND_PATH, COUNTRY_CACHE, codes, idx, valid_iso3,
                   all_parts, failures, out, OUT_PATH, FAIL_PATH, attempts, run>>
    /\ UNCHANGED <<panelData, fetchData, countryData>>

\* the script is started again after a completed run: main's locals are
\* fresh, the files are what the earlier runs left
PullRerun ==
    /\ stage = "01" /\ pc = "done" /\ run < MaxRuns
    /\ run' = run + 1
    /\ pc' = "start"
    /\ codes' = <<>> /\ idx' = 1 /\ valid_iso3' = {}
    /\ all_parts' = <<>> /\ failures' = <<>> /\ out' = <<>> /\ attempts' = <<>>
    /\ UNCHANGED <<stage, error, IND_PATH, COUNTRY_CACHE, OUT_PATH, FAIL_PATH>>
    /\ UNCHANGED <<panelData, fetchData, countryData>>

PullNext ==
    \/ PullLoadCodes
    \/ PullWhitelist
    \/ PullFetch
    \/ PullConcat
    \/ PullSaveLong
    \/ PullSaveFailures
    \/ PullInterrupt

SpecPull == PullInit /\ [][PullNext]_vars

RerunNext == PullNext \/ PullRerun

SpecRerun == PullInit /\ [][RerunNext]_vars

----------------------------------------------------------------------------
(* One call of fetch_indicator_long on the provider's answers              *)

Whitelists == { {"ARG", "BRA"}, {"ARG"}, {"BRA", "CHL"}, {} }

FetchInit ==
    /\ stage = "fetch"
    /\ pc = "call"
    /\ error = NoError
    /\ answers \in IndicatorApis
    /\ fetched = NotFetched
    /\ valid_iso3 \in Whitelists
    /\ codes \in { <<c>> : c \in IndicatorCodes }
    /\ IND_PATH = NoIndicatorFile /\ idx = 1
    /\ all_parts = <<>> /\ failures = <<>> /\ out = <<>>
    /\ OUT_PATH = Absent /\ FAIL_PATH = Absent /\ attempts = <<>> /\ run = 1
    /\ COUNTRY_CACHE = NoCache
    /\ PanelIdle /\ CountryIdle

FetchCall ==
    /\ stage = "fetch" /\ pc = "call"
    /\ fetched' = fetch_indicator_long(answers, codes[1], valid_iso3)
    /\ pc' = "returned"
    /\ UNCHANGED <<stage, error, answers, pullData, COUNTRY_CACHE, panelData, countryData>>

FetchNext == FetchCall

SpecFetch == FetchInit /\ [][FetchNext]_vars

----------------------------------------------------------------------------
(* Repeated calls of fetch_real_country_iso3 over one cache file           *)

\* the cache files the first call may find
CountryCaches ==
    { NoCache,
      [exists |-> TRUE, columns |-> <<"code", "name">>,
       data |-> << [code |-> "ARG", name |-> "Argentina"] >>],
      CacheFile(<<>>),
      CacheFile(<< [iso3 |-> "", country_name |-> "Nowhere", income_group |-> ""] >>),
      CacheFile(<< [iso3 |-> "ARG", country_name |-> "Argentina", income_group |-> ""] >>) }

CountryInit ==
    /\ stage = "country"
    /\ pc = "idle"
    /\ error = NoError
    /\ COUNTRY_CACHE \in CountryCaches
    /\ CountryIdle
    /\ PanelIdle /\ PullIdle /\ FetchIdle

\* one call fetch_real_country_iso3(session, refresh)
CountryCall ==
    /\ stage = "country" /\ ncalls < MaxCalls
    /\ \E refresh \in BOOLEAN, a \in CountryApis :
         LET r == fetch_real_country_iso3(COUNTRY_CACHE, refresh, a)
             builds == ~r.raised /\ r.requests # <<>>
         IN  /\ COUNTRY_CACHE' = r.cache
             /\ last_call' = [called |-> TRUE, refresh |-> refresh, raised |-> r.raised,
                              codes |-> r.codes, requests |-> r.requests,
                              declared |-> IF r.requests # <<>> /\ a.first = "ok"
                                           THEN a.pages ELSE 0,
                              before |-> COUNTRY_CACHE, after |-> r.cache,
                              prior |-> built]
             /\ built' = IF builds THEN [has |-> TRUE, codes |-> r.codes] ELSE built
    /\ ncalls' = ncalls + 1
    /\ UNCHANGED <<stage, pc, error, panelData, pullData, fetchData>>

CountryNext == CountryCall

SpecCountry == CountryInit /\ [][CountryNext]_vars

----------------------------------------------------------------------------
(* The three stages together: a behaviour is one run of one stage          *)

Init == PanelInit \/ PullInit

Next == PanelNext \/ PullNext

Spec == Init /\ [][Next]_vars

----------------------------------------------------------------------------
(* Claims about the subset stage and the coverage report                   *)

RegistryCodes == { registry[j].indicator_code : j \in 1..Len(registry) }

\* indicator codes of the 05 input that have no baseline registry entry
AbsentCodes ==
    { panel_em[i].indicator_code : i \in 1..Len(panel_em) } \ RegistryCodes

\* indicator codes of the 05 input whose registry entry has no pillar
NullPillarCodes ==
    { c \in { panel_em[i].indicator_code : i \in 1..Len(panel_em) } :
        \E j \in 1..Len(registry) :
            registry[j].indicator_code = c /\ registry[j].pillar = NaN }

CheckHasRun == stage = "05" /\ pc \notin {"start", "joined", "interrupted"}

\* C1 as stated: once the hard check of stage 05 has run on an input panel
\* holding an indicator_code with no baseline registry entry, the run has
\* failed with a ValueError naming that code and no output file is written.
C1_AbsentCodeAborts ==
    (CheckHasRun /\ AbsentCodes # {}) =>
        /\ pc = "failed"
        /\ error.type = "ValueError"
        /\ AbsentCodes \subseteq Range(error.codes)
        /\ ~OUT_COVERAGE.exists /\ ~OUT_WIDE.exists

\* C1 amended: rows whose indicator_code has no baseline registry entry are
\* dropped without error; the run fails, with a ValueError naming exactly the
\* offending codes and with no output written, if and only if some input row's
\* indicator_code has a registry entry whose pillar is missing.
C1_NullPillarAborts ==
    CheckHasRun =>
        IF NullPillarCodes # {}
        THEN /\ pc = "failed"
             /\ error.type = "ValueError"
             /\ Range(error.codes) = NullPillarCodes
             /\ ~OUT_COVERAGE.exists /\ ~OUT_WIDE.exists
        ELSE pc # "failed" /\ error = NoError

\* a failed run whose input also held a code the registry does not list
C1_Witness ==
    /\ stage = "05" /\ pc = "failed"
    /\ NullPillarCodes # {} /\ AbsentCodes # {}

\* C2 as stated: every row of a written coverage table has grid_n equal to the
\* number of distinct (iso3, year) pairs of the panel, coverage_pct equal to
\* 100 * non_missing / grid_n, and non_missing <= grid_n (0 <= pct <= 100).
C2_CoverageInRange ==
    OUT_COVERAGE.exists =>
        \A i \in 1..Len(OUT_COVERAGE.data) :
            LET r == OUT_COVERAGE.data[i]
            IN  /\ r.grid_n = Cardinality(Pairs(panel))
                /\ r.coverage_pct = Pct(100 * r.non_missing, r.grid_n)
                /\ 0 <= r.non_missing /\ r.non_missing <= r.grid_n

WindowEmpty(start, end) ==
    \A i \in 1..Len(panel) : ~(panel[i].year >= start /\ panel[i].year <= end)

\* C3 as stated: when a year window holds no observed (iso3, year) pair, the run
\* raises no error and every row of the written coverage table carries 0, not a
\* missing value, in that window's column.
C3_EmptyWindowIsZero ==
    (stage \in {"03", "05"} /\ pc \in {"cov_ready", "cov_saved", "wide_ready", "done"}) =>
        /\ error = NoError
        /\ OUT_COVERAGE.exists =>
            \A i \in 1..Len(OUT_COVERAGE.data) :
                /\ WindowEmpty(2000, 2024) =>
                      OUT_COVERAGE.data[i].coverage_2000_2024_pct = PctZero
                /\ WindowEmpty(2010, 2024) =>
                      OUT_COVERAGE.data[i].coverage_2010_2024_pct = PctZero

\* keys (iso3, year, indicator_code) of the joined panel with two rows of
\* different values, at least one of them not missing
ConflictKeys ==
    { <<panel[i].iso3, panel[i].year, panel[i].indicator_code>> :
        i \in { a \in 1..Len(panel) :
                 \E b \in 1..Len(panel) :
                    /\ panel[b].iso3 = panel[a].iso3
                    /\ panel[b].year = panel[a].year
                    /\ panel[b].indicator_code = panel[a].indicator_code
                    /\ panel[b].value # panel[a].value } }

\* the value of the first row of the panel, in row order, that has this key
\* and a value
FirstSeen(k) ==
    LET at == { i \in 1..Len(panel) :
                  /\ <<panel[i].iso3, panel[i].year, panel[i].indicator_code>> = k
                  /\ panel[i].value # NaN }
    IN  panel[CHOOSE i \in at : \A j \in at : i <= j].value

\* C9: once the pivot of stage 05 has run, no error is raised and, for every
\* key with conflicting values, the wide table holds exactly one row for the
\* key's (iso3, year) and its cell for the key's indicator_code is the first
\* non-missing value of the key in panel row order.
C9_PivotFirstWins ==
    (stage = "05" /\ pc \in {"wide_ready", "done"}) =>
        /\ error = NoError
        /\ \A k \in ConflictKeys :
              LET at == { i \in 1..Len(wide) : wide[i].iso3 = k[1] /\ wide[i].year = k[2] }
              IN  /\ Cardinality(at) = 1
                  /\ \A i \in at : /\ k[3] \in DOMAIN wide[i].cells
                                    /\ wide[i].cells[k[3]] = FirstSeen(k)
        /\ pc = "done" => OUT_WIDE = File(wide)

\* a finished run whose panel held a missing value, then two different values
\* for one key
C9_Witness ==
    /\ stage = "05" /\ pc = "done"
    /\ \E a, b \in 1..Len(panel) :
          /\ a < b
          /\ panel[a].iso3 = panel[b].iso3 /\ panel[a].year = panel[b].year
          /\ panel[a].indicator_code = panel[b].indicator_code
          /\ panel[a].value # NaN /\ panel[b].value # NaN
          /\ panel[a].value # panel[b].value

----------------------------------------------------------------------------
(* Claims about the indicator puller                                       *)

PartsFor(c) == { i \in 1..Len(all_parts) : all_parts[i].code = c }
FailuresFor(c) == { i \in 1..Len(failures) : failures[i][1] = c }

\* C4: in the puller's loop every registry code is attempted once, in registry
\* order, whatever a fetch raises: the attempts are always the first idx-1 codes,
\* each attempted code is in exactly one of all_parts and failures (a failure
\* with its error message), the loop ends only past the last code, and a run
\* that got into the loop fails only after it, for want of any part.
C4_LoopSurvivesFailures ==
    (stage = "01" /\ pc \in {"loop", "cleaned", "saved", "done", "failed"}
       /\ error.type \notin {"FileNotFoundError", "ValueError", "HTTPError"}) =>
        /\ idx <= Len(codes) + 1
        /\ attempts = SubSeq(codes, 1, idx - 1)
        /\ Len(all_parts) + Len(failures) = idx - 1
        /\ \A k \in 1..(idx - 1) :
              Cardinality(PartsFor(codes[k])) + Cardinality(FailuresFor(codes[k])) = 1
        /\ \A i \in 1..Len(failures) : failures[i][2] # None
        /\ pc # "loop" => idx = Len(codes) + 1
        /\ pc = "failed" => error.type = "RuntimeError" /\ all_parts = <<>>

\* a finished run over two codes, the first of which failed
C4_Witness ==
    /\ stage = "01" /\ pc = "done"
    /\ Len(codes) = 2 /\ attempts = codes
    /\ FailuresFor(codes[1]) # {} /\ PartsFor(codes[2]) # {}

\* C5 as stated: when every indicator failed or returned no rows, the run
\* aborts and the long table is not written; so the long table is written
\* only by a run in which some indicator returned rows.
C5_AllEmptyAborts ==
    (stage = "01" /\ OUT_PATH.exists) =>
        \E i \in 1..Len(all_parts) : all_parts[i].rows # <<>>

\* C10 as stated: after completed runs the long table and the failures CSV on
\* disk are those of the most recent run, and a failures CSV is present only
\* if an indicator failed in that run.
C10_OutputsOfLastRun ==
    (stage = "01" /\ pc = "done") =>
        /\ OUT_PATH = File(out)
        /\ FAIL_PATH.exists <=> failures # <<>>
        /\ FAIL_PATH.exists => FAIL_PATH.data = failures

----------------------------------------------------------------------------
(* Claims about fetch_indicator_long                                       *)

\* the dates of the provider's answers that are integer texts, with the year
\* each one stands for
IntegerDates == { <<"2", "0", "1", "5">>, <<" ", "2", "0", "0", "5">> }
YearOf(d) == IF d = <<"2", "0", "1", "5">> THEN 2015 ELSE 2005

RECURSIVE AllItems(_, _)
\* the observations of pages k.. of the answers, in page order
AllItems(a, k) ==
    IF k > a.pages THEN <<>>
    ELSE (IF a.body[k].status = "ok" THEN a.body[k].items ELSE <<>>) \o AllItems(a, k + 1)

\* an observation of a real country with an integer date
Keepable(item) ==
    /\ item.countryiso3code \notin {None, ""}
    /\ item.countryiso3code \in valid_iso3
    /\ item.date \in IntegerDates

\* C6: the rows a call of fetch_indicator_long returns are, in order, exactly
\* the observations of all its pages that have a non-empty whitelisted country
\* code and an integer date, each with that code, the date's year and the value
\* as reported (a missing value included); no other observation yields a row.
C6_OnlyValidRows ==
    (stage = "fetch" /\ pc = "returned" /\ ~fetched.raised) =>
        LET kept == SelectSeq(AllItems(answers, 1), Keepable)
        IN  /\ fetched.rows =
                 [ i \in 1..Len(kept) |->
                     [iso3 |-> kept[i].countryiso3code, year |-> YearOf(kept[i].date),
                      indicator_code |-> codes[1], value |-> kept[i].value] ]
            /\ \A i \in 1..Len(fetched.rows) :
                 /\ fetched.rows[i].iso3 \in valid_iso3 \ {"", None}
                 /\ fetched.rows[i].year \in Int

\* a two-page answer that yields a row with a missing value although an
\* aggregate and malformed observations were on its pages
C6_Witness ==
    /\ stage = "fetch" /\ pc = "returned" /\ ~fetched.raised
    /\ answers.pages = 2
    /\ \E i \in 1..Len(fetched.rows) : fetched.rows[i].value = None
    /\ Len(fetched.rows) < Len(AllItems(answers, 1))
    /\ \E i \in 1..Len(AllItems(answers, 1)) :
         AllItems(answers, 1)[i].countryiso3code = "WLD"

----------------------------------------------------------------------------
(* Claims about fetch_real_country_iso3                                    *)

\* a cache file with an iso3 column that holds at least one code
HoldsCode(cache) ==
    /\ cache.exists
    /\ \E i \in 1..Len(cache.columns) : cache.columns[i] = "iso3"
    /\ \E i \in 1..Len(cache.data) : cache.data[i].iso3 \notin NaValues

ServedFromCache ==
    /\ ~last_call.raised
    /\ last_call.requests = <<>>
    /\ last_call.codes = last_call.prior.codes
    /\ last_call.after = last_call.before

RebuiltOnlyWhenDue ==
    (last_call.called /\ last_call.requests # <<>>) =>
        last_call.refresh \/ ~HoldsCode(last_call.before)

\* C7 as stated: once a call has built and persisted the cache, every later
\* call with refresh=False returns the set that call returned, asks the
\* endpoint nothing and leaves the cache file as it is; and a call asks the
\* endpoint only when the cache is absent or invalid or refresh is requested.
C7_Idempotent ==
    /\ (last_call.called /\ ~last_call.refresh /\ last_call.prior.has) => ServedFromCache
    /\ RebuiltOnlyWhenDue

\* C7 amended: the same, for a build that persisted at least one country.
C7_IdempotentNonEmpty ==
    /\ (last_call.called /\ ~last_call.refresh /\ last_call.prior.has
          /\ last_call.prior.codes # {}) => ServedFromCache
    /\ RebuiltOnlyWhenDue

\* a third call served from a cache of two countries that an earlier call built
C7_Witness ==
    /\ stage = "country" /\ ncalls = 3
    /\ last_call.called /\ ~last_call.refresh /\ last_call.prior.has
    /\ Cardinality(last_call.prior.codes) >= 2
    /\ last_call.requests = <<>>
    /\ last_call.codes = last_call.prior.codes

----------------------------------------------------------------------------
(* Claims about the two pagination loops                                   *)

\* the pages 1..n, each once, in ascending order
PagesInOrder(n) == [ i \in 1..n |-> i ]

RECURSIVE RowsOfPages(_, _)
\* the rows that consuming pages k.. of the answers once each, in page order,
\* yields
RowsOfPages(a, k) ==
    IF k > a.pages THEN <<>>
    ELSE consume(a.body[k], codes[1], valid_iso3) \o RowsOfPages(a, k + 1)

\* a call of fetch_indicator_long whose first response declares N pages and
\* that returns: it asked for pages 1..N once each in ascending order, and
\* its rows are those of pages 1..N consumed once each in that order
C11_IndicatorPagesOnce ==
    (stage = "fetch" /\ pc = "returned" /\ ~fetched.raised
       /\ answers.body[1].status = "ok") =>
        /\ fetched.requests = PagesInOrder(answers.pages)
        /\ fetched.rows = RowsOfPages(answers, 1)

\* a call of fetch_real_country_iso3 whose first response declares N pages
\* and that returns: it asked for pages 1..N once each in ascending order
C11_CountryPagesOnce ==
    (stage = "country" /\ last_call.called /\ ~last_call.raised
       /\ last_call.declared > 0) =>
        last_call.requests = PagesInOrder(last_call.declared)

\* C11: in both pagination loops, when the first response declares N pages
\* and the function returns, every page 1..N was requested from the provider
\* exactly once, in ascending order, and its records consumed exactly once.
C11_EachPageRequestedOnce ==
    C11_IndicatorPagesOnce /\ C11_CountryPagesOnce

----------------------------------------------------------------------------
(* Claims about the order of a stage's writes                              *)

Stopped == pc \in {"failed", "interrupted"}

\* C8 as stated: a run that is interrupted or raises has created none of its
\* stage's output files.
C8_NoOutputUnlessComplete ==
    Stopped =>
        /\ stage = "03" => ~OUT_LONG.exists /\ ~OUT_COVERAGE.exists
        /\ stage = "05" => ~OUT_COVERAGE.exists /\ ~OUT_WIDE.exists
        /\ stage = "01" => ~OUT_PATH.exists /\ ~FAIL_PATH.exists

\* C8 amended: a stage writes its output files in a fixed order, each one whole
\* and only once its content is computed (03: long panel, then coverage CSV;
\* 05: coverage CSV, then wide table; 01: long table, then failures CSV).  A
\* run that stops early leaves a prefix of that order: the second file exists
\* only after a complete run and never without the first, and a run that raises
\* one of the stage's own errors has written nothing.
C8_OutputsInOrder ==
    /\ stage = "03" =>
         /\ OUT_LONG.exists => OUT_LONG = File(panel)
         /\ OUT_COVERAGE.exists =>
              OUT_LONG.exists /\ OUT_COVERAGE = File(cov) /\ pc = "done"
    /\ stage = "05" =>
         /\ OUT_COVERAGE.exists => OUT_COVERAGE = File(cov)
         /\ OUT_WIDE.exists =>
              OUT_COVERAGE.exists /\ OUT_WIDE = File(wide) /\ pc = "done"
    /\ stage = "01" =>
         /\ OUT_PATH.exists => OUT_PATH = File(out)
         /\ FAIL_PATH.exists =>
              OUT_PATH.exists /\ FAIL_PATH = File(failures) /\ pc = "done"
    /\ pc = "failed" =>
         /\ ~OUT_LONG.exists /\ ~OUT_COVERAGE.exists /\ ~OUT_WIDE.exists
         /\ ~OUT_PATH.exists /\ ~FAIL_PATH.exists

\* a merger run killed after it saved the long panel, before the coverage CSV
C8_Witness ==
    /\ stage = "03" /\ pc = "interrupted"
    /\ OUT_LONG.exists /\ Len(OUT_LONG.data) > 0
    /\ ~OUT_COVERAGE.exists

====
